---- MODULE Spec2Model ----
(***************************************************************************)
(* Model of web-console/utils/validation.ts: the sanitizer and the four    *)
(* validators.  A JavaScript string is a sequence of one-character         *)
(* strings; a regular expression is an operator giving, for a string s and *)
(* a start index i, the index just after the match that starts at i, or 0  *)
(* when the expression does not match at i.  All expressions of the file   *)
(* match deterministically (no alternative of a quantifier can succeed     *)
(* where the greedy or lazy choice fails), so one end index per start      *)
(* index is the whole of the backtracking semantics.                       *)
(***************************************************************************)
EXTENDS Integers, Sequences, FiniteSets, TLC

VARIABLES
    DANGEROUS_SCHEMES,  \* module-level array, validation.ts:9
    DANGEROUS_TAGS,     \* module-level array, validation.ts:19
    fn,                 \* the exported function called last ("none" before any call)
    arg,                \* the argument of the call
    ret,                \* what the call returned
    calls               \* the calls in progress, step by step: one activation per caller

vars == <<DANGEROUS_SCHEMES, DANGEROUS_TAGS, fn, arg, ret, calls>>

----------------------------------------------------------------------------
(* Characters *)

UpperLetters == <<"A","B","C","D","E","F","G","H","I","J","K","L","M",
                  "N","O","P","Q","R","S","T","U","V","W","X","Y","Z">>

LowerLetters == <<"a","b","c","d","e","f","g","h","i","j","k","l","m",
                  "n","o","p","q","r","s","t","u","v","w","x","y","z">>

Digits == {"0","1","2","3","4","5","6","7","8","9"}

Letters == {UpperLetters[k] : k \in DOMAIN UpperLetters}
              \cup {LowerLetters[k] : k \in DOMAIN LowerLetters}

ToLowerMap == [c \in {UpperLetters[k] : k \in DOMAIN UpperLetters} |->
                 LowerLetters[CHOOSE k \in DOMAIN UpperLetters : UpperLetters[k] = c]]

\* Case folding of the "i" flag, on the ASCII range.
Lower(c) == IF c \in DOMAIN ToLowerMap THEN ToLowerMap[c] ELSE c

\* \s of a regular expression, and what String.prototype.trim strips (the
\* two sets are the same in JavaScript); the ASCII members the arguments
\* below are made of.
WhiteSpace == {" ", "\t", "\n", "\r"}

\* What "." does not match (no "s" flag anywhere in the file).
LineTerminators == {"\n", "\r"}

\* \w of a regular expression.
WordChars == Letters \cup Digits \cup {"_"}

IsSpace(c) == c \in WhiteSpace

IsWord(c) == c \in WordChars

----------------------------------------------------------------------------
(* Pieces of regular expressions *)

\* \s* from p: the first index at or after p that holds no white space.
RECURSIVE SkipSpace(_, _)
SkipSpace(s, p) ==
    IF p <= Len(s) /\ IsSpace(s[p]) THEN SkipSpace(s, p + 1) ELSE p

\* \w* from p.
RECURSIVE SkipWord(_, _)
SkipWord(s, p) ==
    IF p <= Len(s) /\ IsWord(s[p]) THEN SkipWord(s, p + 1) ELSE p

\* A literal, under the "i" flag, at p: the index after it, or 0.
MatchLit(s, p, lit) ==
    IF /\ p >= 1
       /\ p + Len(lit) - 1 <= Len(s)
       /\ \A k \in 1..Len(lit) : Lower(s[p + k - 1]) = Lower(lit[k])
    THEN p + Len(lit)
    ELSE 0

\* The least index q >= p with s[q] in the set, or 0.
FirstIn(s, p, set) ==
    LET hits == {q \in p..Len(s) : s[q] \in set}
    IN  IF hits = {} THEN 0 ELSE CHOOSE q \in hits : \A r \in hits : q <= r

\* \b at p: exactly one of s[p-1], s[p] is a word character.
WordBoundary(s, p) ==
    (p - 1 >= 1 /\ p - 1 <= Len(s) /\ IsWord(s[p - 1]))
        # (p >= 1 /\ p <= Len(s) /\ IsWord(s[p]))

----------------------------------------------------------------------------
(* String.prototype.replace(regex /g, ''), trim *)

\* The only element of a one-element set.  TLC evaluates a LET definition
\* and an operator argument again at each use; a string that is read many
\* times is therefore bound as x in { f(x) : x \in {e} }, which evaluates e
\* once.
One(S) == CHOOSE r \in S : TRUE

\* ends[i] is the end of the match starting at i (0: none).  The start of
\* the leftmost match at or after from, or 0.
FirstMatch(ends, from, last) ==
    LET hits == {i \in from..last : ends[i] # 0}
    IN  IF hits = {} THEN 0 ELSE CHOOSE i \in hits : \A j \in hits : i <= j

\* The matches are taken leftmost first, the search resuming where a match
\* ended; what lies between them is kept.
RECURSIVE RemoveFrom(_, _, _)
RemoveFrom(s, ends, from) ==
    One({ IF m = 0
          THEN SubSeq(s, from, Len(s))
          ELSE SubSeq(s, from, m - 1) \o RemoveFrom(s, ends, ends[m])
          : m \in {FirstMatch(ends, from, Len(s))} })

\* As RemoveFrom, with a space put where a match was.
RECURSIVE BlankFrom(_, _, _)
BlankFrom(s, ends, from) ==
    One({ IF m = 0
          THEN SubSeq(s, from, Len(s))
          ELSE SubSeq(s, from, m - 1) \o <<" ">> \o BlankFrom(s, ends, ends[m])
          : m \in {FirstMatch(ends, from, Len(s))} })

\* replace(regex, ' ') in place of replace(regex, '').
replaceBySpace(s, ends) == BlankFrom(s, ends, 1)

replace(s, ends) == RemoveFrom(s, ends, 1)

\* The last index at or before p that holds no white space (0: none).
RECURSIVE SkipSpaceBack(_, _)
SkipSpaceBack(s, p) ==
    IF p >= 1 /\ IsSpace(s[p]) THEN SkipSpaceBack(s, p - 1) ELSE p

\* trim as trimStart: the white space at the end is kept.
trimStartOnly(s) == SubSeq(s, SkipSpace(s, 1), Len(s))

trim(s) == SubSeq(s, SkipSpace(s, 1), SkipSpaceBack(s, Len(s)))

----------------------------------------------------------------------------
(* The regular expressions of sanitizeInput *)

\* schemePattern without the \s* before each character.
RECURSIVE schemePatternNoSpace(_, _, _, _)
schemePatternNoSpace(s, p, scheme, k) ==
    IF k > Len(scheme)
    THEN p
    ELSE IF p <= Len(s) /\ Lower(s[p]) = Lower(scheme[k])
         THEN schemePatternNoSpace(s, p + 1, scheme, k + 1)
         ELSE 0

\* new RegExp(schemePattern, 'gi'): \s* before every character of the
\* scheme, the colon included.  k is the next character of the scheme.
RECURSIVE schemePattern(_, _, _, _)
schemePattern(s, p, scheme, k) ==
    IF k > Len(scheme)
    THEN p
    ELSE LET q == SkipSpace(s, p)
         IN  IF q <= Len(s) /\ Lower(s[q]) = Lower(scheme[k])
             THEN schemePattern(s, q + 1, scheme, k + 1)
             ELSE 0

\* <\s*tag\b[^>]*>  with flags gi
openTagRegex(s, i, tag) ==
    IF s[i] # "<"
    THEN 0
    ELSE LET p == MatchLit(s, SkipSpace(s, i + 1), tag)
         IN  IF p = 0 \/ ~WordBoundary(s, p)
             THEN 0
             ELSE LET q == FirstIn(s, p, {">"})
                  IN  IF q = 0 THEN 0 ELSE q + 1

\* closeTagRegex without the "i" flag.
closeTagRegexCaseSensitive(s, i, tag) ==
    IF s[i] # "<"
    THEN 0
    ELSE LET p == SkipSpace(s, i + 1)
         IN  IF p > Len(s) \/ s[p] # "/"
             THEN 0
             ELSE LET m == SkipSpace(s, p + 1)
                      q == m + Len(tag)
                      r == SkipSpace(s, q)
                  IN  IF /\ q - 1 <= Len(s)
                         /\ \A k \in 1..Len(tag) : s[m + k - 1] = tag[k]
                         /\ r <= Len(s)
                         /\ s[r] = ">"
                      THEN r + 1
                      ELSE 0

\* <\s*/\s*tag\s*>  with flags gi
closeTagRegex(s, i, tag) ==
    IF s[i] # "<"
    THEN 0
    ELSE LET p == SkipSpace(s, i + 1)
         IN  IF p > Len(s) \/ s[p] # "/"
             THEN 0
             ELSE LET q == MatchLit(s, SkipSpace(s, p + 1), tag)
                  IN  IF q = 0
                      THEN 0
                      ELSE LET r == SkipSpace(s, q)
                           IN  IF r <= Len(s) /\ s[r] = ">" THEN r + 1 ELSE 0

\* /<\s*tag[^>]*>[\s\S]*?<\s*\/\s*tag\s*>/gi  for tag script and tag style
elementRegex(s, i, tag) ==
    IF s[i] # "<"
    THEN 0
    ELSE LET p == MatchLit(s, SkipSpace(s, i + 1), tag)
         IN  IF p = 0
             THEN 0
             ELSE LET q == FirstIn(s, p, {">"})
                  IN  IF q = 0
                      THEN 0
                      ELSE LET closes == {r \in (q + 1)..Len(s) :
                                             closeTagRegex(s, r, tag) # 0}
                           IN  IF closes = {}
                               THEN 0
                               ELSE closeTagRegex(s,
                                       CHOOSE r \in closes : \A x \in closes : r <= x,
                                       tag)

\* handlerName without the = sign: \s+on\w+\s*
handlerNameNoEquals(s, i) ==
    IF ~IsSpace(s[i])
    THEN 0
    ELSE LET p == MatchLit(s, SkipSpace(s, i), <<"o", "n">>)
         IN  IF p = 0
             THEN 0
             ELSE LET q == SkipWord(s, p)
                  IN  IF q > p THEN SkipSpace(s, q) ELSE 0

\* \s+on\w+\s*=  the part the two event-handler expressions share:
\* the index after the = sign, or 0.
handlerName(s, i) ==
    IF ~IsSpace(s[i])
    THEN 0
    ELSE LET p == MatchLit(s, SkipSpace(s, i), <<"o", "n">>)
         IN  IF p = 0
             THEN 0
             ELSE LET q == SkipWord(s, p)
                      r == SkipSpace(s, q)
                  IN  IF q > p /\ r <= Len(s) /\ s[r] = "="
                      THEN r + 1
                      ELSE 0

\* /\s+on\w+\s*=\s*["'][^"']*["']/gi
quotedHandlerRegex(s, i) ==
    LET e == handlerName(s, i)
    IN  IF e = 0
        THEN 0
        ELSE LET t == SkipSpace(s, e)
             IN  IF t > Len(s) \/ s[t] \notin {"\"", "'"}
                 THEN 0
                 ELSE LET u == FirstIn(s, t + 1, {"\"", "'"})
                      IN  IF u = 0 THEN 0 ELSE u + 1

\* /\s+on\w+\s*=\s*[^\s>]+/gi
bareHandlerRegex(s, i) ==
    LET e == handlerName(s, i)
    IN  IF e = 0
        THEN 0
        ELSE LET t == SkipSpace(s, e)
             IN  IF t > Len(s) \/ s[t] = ">"
                 THEN 0
                 ELSE LET v == FirstIn(s, t, WhiteSpace \cup {">"})
                      IN  IF v = 0 THEN Len(s) + 1 ELSE v

----------------------------------------------------------------------------
(* sanitizeInput *)

\* One pass of the loop of lines 57-60.
schemePass(s, scheme) ==
    replace(s, [i \in 1..Len(s) |-> schemePattern(s, i, scheme, 1)])

\* do { ... } while (sanitized.length !== previousLength), lines 56-60
RECURSIVE schemeLoop(_, _)
schemeLoop(s, scheme) ==
    One({ IF Len(t) # Len(s) THEN schemeLoop(t, scheme) ELSE t
          : t \in {schemePass(s, scheme)} })

\* for (const scheme of DANGEROUS_SCHEMES), from its k-th entry on
RECURSIVE removeSchemes(_, _)
removeSchemes(s, k) ==
    IF k > Len(DANGEROUS_SCHEMES)
    THEN s
    ELSE One({ removeSchemes(t, k + 1)
               : t \in {schemeLoop(s, DANGEROUS_SCHEMES[k])} })

\* One pass of the loop of lines 71-75: opening tags, then closing tags.
tagPass(s, tag) ==
    One({ replace(o, [i \in 1..Len(o) |-> closeTagRegex(o, i, tag)])
          : o \in {replace(s, [i \in 1..Len(s) |-> openTagRegex(s, i, tag)])} })

\* do { ... } while (sanitized.length !== previousLength), lines 70-75
RECURSIVE tagLoop(_, _)
tagLoop(s, tag) ==
    One({ IF Len(t) # Len(s) THEN tagLoop(t, tag) ELSE t
          : t \in {tagPass(s, tag)} })

\* for (const tag of DANGEROUS_TAGS), from its k-th entry on
RECURSIVE removeTags(_, _)
removeTags(s, k) ==
    IF k > Len(DANGEROUS_TAGS)
    THEN s
    ELSE One({ removeTags(t, k + 1) : t \in {tagLoop(s, DANGEROUS_TAGS[k])} })

\* One pass of the loop of lines 80-85: script elements, then style elements.
elementPass(s) ==
    One({ replace(a, [i \in 1..Len(a) |->
                        elementRegex(a, i, <<"s","t","y","l","e">>)])
          : a \in {replace(s, [i \in 1..Len(s) |->
                        elementRegex(s, i, <<"s","c","r","i","p","t">>)])} })

\* do { ... } while (sanitized.length !== previousLength), lines 79-85
RECURSIVE elementLoop(_)
elementLoop(s) ==
    One({ IF Len(t) # Len(s) THEN elementLoop(t) ELSE t : t \in {elementPass(s)} })

\* Lines 88-89: each expression applied once.
removeHandlers(s) ==
    One({ replace(a, [i \in 1..Len(a) |-> bareHandlerRegex(a, i)])
          : a \in {replace(s, [i \in 1..Len(s) |-> quotedHandlerRegex(s, i)])} })

\* A JavaScript value passed as the argument: a string, null or undefined.
Str(s) == [type |-> "string", chars |-> s]

Null == [type |-> "null", chars |-> <<>>]

Undefined == [type |-> "undefined", chars |-> <<>>]

\* !input : true of null, undefined and the empty string.
Falsy(input) == input.type # "string" \/ Len(input.chars) = 0

\* A sanitizer that parses its argument and fails, with the name of the
\* error in place of a string, on a "<" that no ">" closes.
sanitizeInputParsing(input) ==
    IF Falsy(input)
    THEN <<>>
    ELSE IF \E i \in 1..Len(input.chars) :
                /\ input.chars[i] = "<"
                /\ \A j \in (i + 1)..Len(input.chars) : input.chars[j] # ">"
    THEN <<"SyntaxError">>
    ELSE One({ trim(d) : d \in
           { removeHandlers(c) : c \in
               { elementLoop(b) : b \in
                   { removeTags(a, 1) : a \in
                       { removeSchemes(x, 1) : x \in {input.chars} } } } } })

\* sanitizeInput(input), lines 42-92.  The result is always a string.
sanitizeInput(input) ==
    IF Falsy(input)
    THEN <<>>
    ELSE One({ trim(d) : d \in
           { removeHandlers(c) : c \in
               { elementLoop(b) : b \in
                   { removeTags(a, 1) : a \in
                       { removeSchemes(x, 1) : x \in {input.chars} } } } } })

----------------------------------------------------------------------------
(* validateChatInput *)

MaxChatLength == 4000

RepeatExtra == 10

\* [a-zA-Z0-9\s.,!?;:()\-'"] : the characters line 113 does not count.
PlainChars ==
    Letters \cup Digits \cup WhiteSpace
        \cup {".", ",", "!", "?", ";", ":", "(", ")", "-", "'", "\""}

\* (sanitized.match(/[^a-zA-Z0-9\s.,!?;:()\-'"]/g) || []).length
specialCharCount(s) == Cardinality({i \in 1..Len(s) : s[i] \notin PlainChars})

\* sanitized.match(/(.)\1{10,}/g) is not null: some character that "."
\* matches is followed by at least 10 copies of itself.
repeatedChars(s) ==
    \E i \in 1..(Len(s) - RepeatExtra) :
        /\ s[i] \notin LineTerminators
        /\ \A k \in 1..RepeatExtra : s[i + k] = s[i]

Valid == [valid |-> TRUE]

\* A rejection that carries no message.
InvalidWithoutError(msg) == [valid |-> FALSE]

Invalid(msg) == [valid |-> FALSE, error |-> msg]

\* validateChatInput with the ratio rule before the length rule.
validateChatInputRatioFirst(input) ==
    One({ IF Len(sanitized) = 0 \/ Len(trim(sanitized)) = 0
          THEN Invalid("Message cannot be empty")
          ELSE IF 2 * specialCharCount(sanitized) > Len(sanitized)
          THEN Invalid("Message contains too many special characters")
          ELSE IF Len(sanitized) > MaxChatLength
          THEN Invalid("Message too long (maximum 4000 characters)")
          ELSE IF repeatedChars(sanitized)
          THEN Invalid("Message contains excessive repeated characters")
          ELSE Valid
          : sanitized \in {sanitizeInput(input)} })

\* The rules of lines 103-126, on the sanitized string.  specialCharCount /
\* length > 0.5 is decided on the integers: the quotient of two integers
\* below 2^53 is above 0.5 exactly when twice the count is above the length.
chatRules(sanitized) ==
    IF Len(sanitized) = 0 \/ Len(trim(sanitized)) = 0
    THEN Invalid("Message cannot be empty")
    ELSE IF Len(sanitized) > MaxChatLength
    THEN Invalid("Message too long (maximum 4000 characters)")
    ELSE IF 2 * specialCharCount(sanitized) > Len(sanitized)
    THEN Invalid("Message contains too many special characters")
    ELSE IF repeatedChars(sanitized)
    THEN Invalid("Message contains excessive repeated characters")
    ELSE Valid

\* validateChatInput with the length rule on the raw argument.
validateChatInputRawLength(input) ==
    One({ IF Len(sanitized) = 0 \/ Len(trim(sanitized)) = 0
          THEN Invalid("Message cannot be empty")
          ELSE IF Len(input.chars) > MaxChatLength
          THEN Invalid("Message too long (maximum 4000 characters)")
          ELSE IF 2 * specialCharCount(sanitized) > Len(sanitized)
          THEN Invalid("Message contains too many special characters")
          ELSE IF repeatedChars(sanitized)
          THEN Invalid("Message contains excessive repeated characters")
          ELSE Valid
          : sanitized \in {sanitizeInput(input)} })

\* validateChatInput without the rule of lines 103-105.
validateChatInputEmptyAccepted(input) ==
    One({ IF Len(sanitized) > MaxChatLength
          THEN Invalid("Message too long (maximum 4000 characters)")
          ELSE IF 2 * specialCharCount(sanitized) > Len(sanitized)
          THEN Invalid("Message contains too many special characters")
          ELSE IF repeatedChars(sanitized)
          THEN Invalid("Message contains excessive repeated characters")
          ELSE Valid
          : sanitized \in {sanitizeInput(input)} })

\* validateChatInput rejecting a message of exactly the maximum length.
validateChatInputMaxRejected(input) ==
    One({ IF Len(sanitized) = 0 \/ Len(trim(sanitized)) = 0
          THEN Invalid("Message cannot be empty")
          ELSE IF Len(sanitized) >= MaxChatLength
          THEN Invalid("Message too long (maximum 4000 characters)")
          ELSE IF 2 * specialCharCount(sanitized) > Len(sanitized)
          THEN Invalid("Message contains too many special characters")
          ELSE IF repeatedChars(sanitized)
          THEN Invalid("Message contains excessive repeated characters")
          ELSE Valid
          : sanitized \in {sanitizeInput(input)} })

\* validateChatInput rejecting a message of which exactly half is special.
validateChatInputHalfRejected(input) ==
    One({ IF Len(sanitized) = 0 \/ Len(trim(sanitized)) = 0
          THEN Invalid("Message cannot be empty")
          ELSE IF Len(sanitized) > MaxChatLength
          THEN Invalid("Message too long (maximum 4000 characters)")
          ELSE IF 2 * specialCharCount(sanitized) >= Len(sanitized)
          THEN Invalid("Message contains too many special characters")
          ELSE IF repeatedChars(sanitized)
          THEN Invalid("Message contains excessive repeated characters")
          ELSE Valid
          : sanitized \in {sanitizeInput(input)} })

\* validateChatInput(input), lines 99-127: the rules on sanitizeInput(input).
validateChatInput(input) ==
    One({ chatRules(sanitized) : sanitized \in {sanitizeInput(input)} })

----------------------------------------------------------------------------
(* validateUsername, validatePassword, validateEmail *)

MinUsernameLength == 3

MaxUsernameLength == 50

MinPasswordLength == 8

MaxPasswordLength == 128

MaxEmailLength == 254

\* /^[a-zA-Z0-9._-]+$/
validPattern(s) ==
    /\ Len(s) >= 1
    /\ \A i \in 1..Len(s) : s[i] \in Letters \cup Digits \cup {".", "_", "-"}

\* validateUsername rejecting a name of exactly the maximum length.
validateUsernameMaxRejected(username) ==
    IF Falsy(username) \/ Len(trim(username.chars)) = 0
    THEN Invalid("Username is required")
    ELSE IF Len(username.chars) < MinUsernameLength
    THEN Invalid("Username must be at least 3 characters")
    ELSE IF Len(username.chars) >= MaxUsernameLength
    THEN Invalid("Username must be less than 50 characters")
    ELSE IF ~validPattern(username.chars)
    THEN Invalid("Username can only contain letters, numbers, dots, underscores, and hyphens")
    ELSE Valid

\* validateUsername(username), lines 134-154
validateUsername(username) ==
    IF Falsy(username) \/ Len(trim(username.chars)) = 0
    THEN Invalid("Username is required")
    ELSE IF Len(username.chars) < MinUsernameLength
    THEN Invalid("Username must be at least 3 characters")
    ELSE IF Len(username.chars) > MaxUsernameLength
    THEN Invalid("Username must be less than 50 characters")
    ELSE IF ~validPattern(username.chars)
    THEN Invalid("Username can only contain letters, numbers, dots, underscores, and hyphens")
    ELSE Valid

\* validatePassword with the required rule of the other two validators.
validatePasswordTrimmed(password) ==
    IF Falsy(password) \/ Len(trim(password.chars)) = 0
    THEN Invalid("Password is required")
    ELSE IF Len(password.chars) < MinPasswordLength
    THEN Invalid("Password must be at least 8 characters")
    ELSE IF Len(password.chars) > MaxPasswordLength
    THEN Invalid("Password must be less than 128 characters")
    ELSE Valid

\* validatePassword rejecting a password of exactly the minimum length.
validatePasswordMinRejected(password) ==
    IF Falsy(password) \/ Len(password.chars) = 0
    THEN Invalid("Password is required")
    ELSE IF Len(password.chars) <= MinPasswordLength
    THEN Invalid("Password must be at least 8 characters")
    ELSE IF Len(password.chars) > MaxPasswordLength
    THEN Invalid("Password must be less than 128 characters")
    ELSE Valid

\* validatePassword(password), lines 161-175
validatePassword(password) ==
    IF Falsy(password) \/ Len(password.chars) = 0
    THEN Invalid("Password is required")
    ELSE IF Len(password.chars) < MinPasswordLength
    THEN Invalid("Password must be at least 8 characters")
    ELSE IF Len(password.chars) > MaxPasswordLength
    THEN Invalid("Password must be less than 128 characters")
    ELSE Valid

\* [^\s@]+ spans exactly the indices a..b of s.
LocalRun(s, a, b) ==
    /\ a <= b
    /\ \A i \in a..b : s[i] \notin WhiteSpace \cup {"@"}

\* An "@" with something before it and something after it.
emailPatternLoose(s) ==
    \E at \in 2..(Len(s) - 1) : s[at] = "@"

\* /^[^\s@]+@[^\s@]+\.[^\s@]+$/ : some split of the whole string into
\* run, "@", run, ".", run.
emailPattern(s) ==
    \E at \in 1..Len(s) :
        /\ s[at] = "@"
        /\ LocalRun(s, 1, at - 1)
        /\ \E dot \in (at + 1)..Len(s) :
               /\ s[dot] = "."
               /\ LocalRun(s, at + 1, dot - 1)
               /\ LocalRun(s, dot + 1, Len(s))

\* validateEmail with the length rule before the shape rule.
validateEmailLengthFirst(email) ==
    IF Falsy(email) \/ Len(trim(email.chars)) = 0
    THEN Invalid("Email is required")
    ELSE IF Len(email.chars) > MaxEmailLength
    THEN Invalid("Email is too long")
    ELSE IF ~emailPattern(email.chars)
    THEN Invalid("Invalid email format")
    ELSE Valid

\* validateEmail(email), lines 182-198
validateEmail(email) ==
    IF Falsy(email) \/ Len(trim(email.chars)) = 0
    THEN Invalid("Email is required")
    ELSE IF ~emailPattern(email.chars)
    THEN Invalid("Invalid email format")
    ELSE IF Len(email.chars) > MaxEmailLength
    THEN Invalid("Email is too long")
    ELSE Valid

----------------------------------------------------------------------------
(* The module at load, and the calls *)

\* validation.ts:9-14
SchemeList ==
    << <<"j","a","v","a","s","c","r","i","p","t",":">>,
       <<"v","b","s","c","r","i","p","t",":">>,
       <<"d","a","t","a",":">>,
       <<"f","i","l","e",":">> >>

\* validation.ts:19-34
TagList ==
    << <<"s","c","r","i","p","t">>,
       <<"i","f","r","a","m","e">>,
       <<"o","b","j","e","c","t">>,
       <<"e","m","b","e","d">>,
       <<"a","p","p","l","e","t">>,
       <<"m","e","t","a">>,
       <<"l","i","n","k">>,
       <<"s","t","y","l","e">>,
       <<"f","o","r","m">>,
       <<"i","n","p","u","t">>,
       <<"b","u","t","t","o","n">>,
       <<"t","e","x","t","a","r","e","a">>,
       <<"s","e","l","e","c","t">>,
       <<"b","a","s","e">> >>

\* The most fragments one argument is made of.
MaxFrags == 3

\* Pieces of markup, of schemes and of text that arguments are made of.
Fragments ==
    { <<"<","s","c","r">>,
      <<"i","p","t",">">>,
      <<"<","b","a","s","e",">">>,
      <<"<","s","c","r","i","p","t",">">>,
      <<"<","/","s","c","r","i","p","t",">">>,
      <<"e","v","i","l">>,
      <<"d","a">>,
      <<"t","a",":">>,
      <<"f","i","l","e",":">>,
      <<" ">>,
      <<" ","o","n","x","=","1">>,
      <<"o","n","x","=","\"","\"">> }

\* All concatenations of exactly n fragments.
RECURSIVE Concats(_)
Concats(n) ==
    IF n = 0
    THEN {<<>>}
    ELSE {f \o r : f \in Fragments, r \in Concats(n - 1)}

Args ==
    {Null, Undefined} \cup {Str(s) : s \in UNION {Concats(n) : n \in 0..MaxFrags}}

Loaded ==
    /\ DANGEROUS_SCHEMES = SchemeList
    /\ DANGEROUS_TAGS = TagList
    /\ fn = "none"
    /\ ret = <<>>

Init == Loaded /\ calls = <<>> /\ arg \in Args

\* A call of sanitizeInput that leaves the list of schemes empty.
CallSanitizeInputConsuming ==
    /\ fn = "none"
    /\ fn' = "sanitizeInput"
    /\ ret' = sanitizeInput(arg)
    /\ DANGEROUS_SCHEMES' = <<>>
    /\ UNCHANGED <<DANGEROUS_TAGS, arg, calls>>

CallSanitizeInput ==
    /\ fn = "none"
    /\ fn' = "sanitizeInput"
    /\ ret' = sanitizeInput(arg)
    /\ UNCHANGED <<DANGEROUS_SCHEMES, DANGEROUS_TAGS, arg, calls>>

CallValidateChatInput ==
    /\ fn = "none"
    /\ fn' = "validateChatInput"
    /\ ret' = validateChatInput(arg)
    /\ UNCHANGED <<DANGEROUS_SCHEMES, DANGEROUS_TAGS, arg, calls>>

CallValidateUsername ==
    /\ fn = "none"
    /\ fn' = "validateUsername"
    /\ ret' = validateUsername(arg)
    /\ UNCHANGED <<DANGEROUS_SCHEMES, DANGEROUS_TAGS, arg, calls>>

CallValidatePassword ==
    /\ fn = "none"
    /\ fn' = "validatePassword"
    /\ ret' = validatePassword(arg)
    /\ UNCHANGED <<DANGEROUS_SCHEMES, DANGEROUS_TAGS, arg, calls>>

CallValidateEmail ==
    /\ fn = "none"
    /\ fn' = "validateEmail"
    /\ ret' = validateEmail(arg)
    /\ UNCHANGED <<DANGEROUS_SCHEMES, DANGEROUS_TAGS, arg, calls>>

\* The caller has taken the result; the next call may follow.
Return ==
    /\ fn # "none"
    /\ fn' = "none"
    /\ ret' = <<>>
    /\ UNCHANGED <<DANGEROUS_SCHEMES, DANGEROUS_TAGS, arg, calls>>

Next ==
    \/ CallSanitizeInput
    \/ CallValidateChatInput
    \/ CallValidateUsername
    \/ CallValidatePassword
    \/ CallValidateEmail
    \/ Return

Spec == Init /\ [][Next]_vars

----------------------------------------------------------------------------
(* Arguments of the tag test: "<" + T + ">evil</" + T + ">" in every casing *)

ToUpperMap == [c \in {LowerLetters[k] : k \in DOMAIN LowerLetters} |->
                 UpperLetters[CHOOSE k \in DOMAIN LowerLetters : LowerLetters[k] = c]]

Upper(c) == IF c \in DOMAIN ToUpperMap THEN ToUpperMap[c] ELSE c

\* The word with the letters at the indices in U in upper case.
Cased(word, U) == [k \in 1..Len(word) |-> IF k \in U THEN Upper(word[k]) ELSE word[k]]

Casings(word) == {Cased(word, U) : U \in SUBSET (1..Len(word))}

Evil == <<"e","v","i","l">>

TagTest(T) == <<"<">> \o T \o <<">">> \o Evil \o <<"<", "/">> \o T \o <<">">>

TagArgs ==
    {Str(TagTest(T)) : T \in UNION {Casings(TagList[k]) : k \in DOMAIN TagList}}

InitTags == Loaded /\ calls = <<>> /\ arg \in TagArgs

SpecTags == InitTags /\ [][Next]_vars

----------------------------------------------------------------------------
(* Arguments of the scheme test: an obfuscated scheme, then "alert(1)" *)

\* The most gaps of a scheme that hold white space.
MaxGaps == 2

\* The most white-space characters in one gap.
MaxGapSpace == 1

Alert == <<"a","l","e","r","t","(","1",")">>

Repeat(c, n) == [k \in 1..n |-> c]

\* The scheme with n copies of w before each character whose index is in G.
RECURSIVE Spaced(_, _, _, _, _)
Spaced(scheme, G, w, n, k) ==
    IF k > Len(scheme)
    THEN <<>>
    ELSE (IF k \in G THEN Repeat(w, n) ELSE <<>>)
             \o <<scheme[k]>> \o Spaced(scheme, G, w, n, k + 1)

\* Lower case, upper case, and one letter in upper case.
CaseChoices(scheme) ==
    {{}, 1..Len(scheme)} \cup {{k} : k \in 1..Len(scheme)}

\* The gaps are those between two characters of the scheme, the one before
\* the colon included.
Obfuscations(scheme) ==
    {Spaced(Cased(scheme, U), G, w, n, 1) :
        U \in CaseChoices(scheme),
        G \in {H \in SUBSET (2..Len(scheme)) : Cardinality(H) <= MaxGaps},
        w \in WhiteSpace,
        n \in 1..MaxGapSpace}

SchemeArgs ==
    {Str(o \o Alert) :
        o \in UNION {Obfuscations(SchemeList[k]) : k \in DOMAIN SchemeList}}

InitSchemes == Loaded /\ calls = <<>> /\ arg \in SchemeArgs

SpecSchemes == InitSchemes /\ [][Next]_vars

----------------------------------------------------------------------------
(* Arguments of the chat rules: runs of one character *)

\* The most runs one argument is made of.
MaxRuns == 3

RunChars == {"a", "#", " ", "\n"}

RunLengths == {1, RepeatExtra, RepeatExtra + 1}

Runs == {Repeat(c, n) : c \in RunChars, n \in RunLengths}

RECURSIVE RunConcats(_)
RunConcats(n) ==
    IF n = 0
    THEN {<<>>}
    ELSE {f \o r : f \in Runs, r \in RunConcats(n - 1)}

\* One run at and just above the length limit.
LongRuns ==
    {Repeat(c, n) : c \in {"a", "#"}, n \in {MaxChatLength, MaxChatLength + 1}}

\* Arguments of more characters than the length limit of which a tag is
\* removed: one tag as long as the limit before "ok", and <base> before a
\* run at and just above the limit.
RawLong ==
    { <<"<","b","a","s","e"," ">> \o Repeat("x", MaxChatLength) \o <<">", "o", "k">>,
      <<"<","b","a","s","e",">">> \o Repeat("a", MaxChatLength),
      <<"<","b","a","s","e",">">> \o Repeat("a", MaxChatLength + 1) }

ChatArgs ==
    {Null, Undefined}
        \cup {Str(s) : s \in UNION {RunConcats(n) : n \in 0..MaxRuns}}
        \cup {Str(s) : s \in LongRuns \cup RawLong}

InitChat == Loaded /\ calls = <<>> /\ arg \in ChatArgs

SpecChat == InitChat /\ [][Next]_vars

----------------------------------------------------------------------------
(* Arguments of the ratio rule: short messages over letters, digits, white *)
(* space, the punctuation the rule lets pass and characters it counts      *)

\* The longest short message.
MaxRatioLen == 2

RatioChars ==
    {"a", "Z", "5", " ", "\n",
     ".", ",", "!", "?", ";", ":", "(", ")", "-", "'", "\"",
     "#", "_", "@", "*", "<", "=", "/", "&"}

RatioArgs ==
    {Null, Undefined}
        \cup {Str(s) : s \in UNION {[1..n -> RatioChars] : n \in 0..MaxRatioLen}}
        \cup {Str(s) : s \in LongRuns}

InitRatio == Loaded /\ calls = <<>> /\ arg \in RatioArgs

SpecRatio == InitRatio /\ [][Next]_vars

----------------------------------------------------------------------------
(* Arguments of the identity validators: short fields, runs of one         *)
(* character at the length limits, and addresses                           *)

\* The longest short field.
MaxFieldLen == 3

FieldChars == {"a", "Z", "1", ".", "_", "-", " ", "#"}

FieldStrings == UNION {[1..n -> FieldChars] : n \in 0..MaxFieldLen}

\* The lengths at the two sides of every limit.
BoundaryLengths ==
    { MinUsernameLength - 1, MinUsernameLength,
      MaxUsernameLength, MaxUsernameLength + 1,
      MinPasswordLength - 1, MinPasswordLength,
      MaxPasswordLength, MaxPasswordLength + 1,
      MaxEmailLength, MaxEmailLength + 1 }

BoundaryRuns == {Repeat(c, n) : c \in {"a", " ", "#"}, n \in BoundaryLengths}

\* The longest short address.
MaxAddressLen == 5

AddressChars == {"a", "@", ".", " "}

Addresses == UNION {[1..n -> AddressChars] : n \in 0..MaxAddressLen}

\* Addresses aaa...a@b.c of 253, 254 and 255 characters.
LongAddresses ==
    { Repeat("a", MaxEmailLength - k) \o <<"@", "b", ".", "c">> : k \in {3, 4, 5} }

\* a@b@c.com, user@.com, user@example., @example.com and user@example.com
EmailExamples ==
    { <<"a","@","b","@","c",".","c","o","m">>,
      <<"u","s","e","r","@",".","c","o","m">>,
      <<"u","s","e","r","@","e","x","a","m","p","l","e",".">>,
      <<"@","e","x","a","m","p","l","e",".","c","o","m">>,
      <<"u","s","e","r","@","e","x","a","m","p","l","e",".","c","o","m">> }

FieldArgs ==
    {Null, Undefined}
        \cup {Str(s) : s \in FieldStrings \cup BoundaryRuns \cup Addresses \cup LongAddresses}
        \cup {Str(s) : s \in EmailExamples}
        \cup {Str(s) : s \in LongRuns}

InitFields == Loaded /\ calls = <<>> /\ arg \in FieldArgs

SpecFields == InitFields /\ [][Next]_vars

----------------------------------------------------------------------------
(* Arguments of malformed markup: tags that are not closed, quotes that    *)
(* are not terminated, closing tags without an opening tag                 *)

\* The most pieces one malformed argument is made of.
MaxMalformed == 3

MalformedPieces ==
    { <<"<">>,
      <<">">>,
      <<"\"">>,
      <<"<","s","c","r","i","p","t">>,
      <<"<","/","s","c","r","i","p","t",">">>,
      <<"<","/","b">>,
      <<" ","o","n","x","=","\"","1">>,
      <<"<","a"," ","h","r","e","f","=","'">>,
      <<"x">> }

RECURSIVE MalformedConcats(_)
MalformedConcats(n) ==
    IF n = 0
    THEN {<<>>}
    ELSE {f \o r : f \in MalformedPieces, r \in MalformedConcats(n - 1)}

MalformedArgs ==
    {Null, Undefined}
        \cup {Str(s) : s \in UNION {MalformedConcats(n) : n \in 0..MaxMalformed}}

InitMalformed == Loaded /\ calls = <<>> /\ arg \in MalformedArgs

SpecMalformed == InitMalformed /\ [][Next]_vars

----------------------------------------------------------------------------
(* Arguments of harmless text: words of the schemes, of the tags and of    *)
(* the handlers, white space and punctuation, without "<", ":" and "="     *)

\* The most pieces one harmless argument is made of.
MaxHarmless == 3

HarmlessPieces ==
    { <<" ">>,
      <<"\t">>,
      <<"\n">>,
      <<"x">>,
      <<"d","a","t","a">>,
      <<"s","c","r","i","p","t",">">>,
      <<"/","s","t","y","l","e",">">>,
      <<" ","o","n","c","l","i","c","k">>,
      <<"\"","1","\"">> }

RECURSIVE HarmlessConcats(_)
HarmlessConcats(n) ==
    IF n = 0
    THEN {<<>>}
    ELSE {f \o r : f \in HarmlessPieces, r \in HarmlessConcats(n - 1)}

HarmlessArgs ==
    {Null, Undefined}
        \cup {Str(s) : s \in UNION {HarmlessConcats(n) : n \in 0..MaxHarmless}}

InitHarmless == Loaded /\ calls = <<>> /\ arg \in HarmlessArgs

SpecHarmless == InitHarmless /\ [][Next]_vars

----------------------------------------------------------------------------
(* The calls step by step.  Every caller has an activation of its own: the *)
(* argument, the locals "sanitized" (line 45) and "previousLength" (lines  *)
(* 55, 69, 78), the index of the for loops of lines 48, 64, and the place  *)
(* the call has reached.  One step is one pass of a do-while loop, lines   *)
(* 88-91, or the rules of a validator.  Steps of different callers         *)
(* interleave.  "passes" and "entry" record, for the loop the call is in,  *)
(* the passes made so far and the length of the string on entry.           *)

Functions ==
    {"sanitizeInput", "validateChatInput", "validateUsername",
     "validatePassword", "validateEmail"}

\* The activation of a caller that is in no call; the caller takes the
\* arguments of its calls from "inputs".
Idle(inputs) ==
    [ inputs |-> inputs, fn |-> "none", input |-> Null, pc |-> "idle",
      sanitized |-> <<>>, k |-> 0, previousLength |-> 0, passes |-> 0, entry |-> 0,
      result |-> <<>> ]

\* One "sanitized" for all callers, as a variable of the module would be.
WorkingShared(c) == calls[1].sanitized

\* The local "sanitized" of the call of caller c.
Working(c) == calls[c].sanitized

\* A loop that goes on until nothing is left of the string.
LoopUntilEmpty(length, previousLength) == length # 0

\* while (sanitized.length !== previousLength), lines 60, 75 and 85
LoopAgain(length, previousLength) == length # previousLength

\* Lines 43-46: the call is entered.  The three identity validators have no
\* loop and are one step.
Enter(c, f, input) ==
    /\ calls[c].pc = "idle"
    /\ calls' = [calls EXCEPT ![c] =
         LET a == [calls[c] EXCEPT !.input = input]
         IN  CASE f = "validateUsername" ->
                    [a EXCEPT !.fn = f, !.pc = "done", !.result = validateUsername(a.input)]
               [] f = "validatePassword" ->
                    [a EXCEPT !.fn = f, !.pc = "done", !.result = validatePassword(a.input)]
               [] f = "validateEmail" ->
                    [a EXCEPT !.fn = f, !.pc = "done", !.result = validateEmail(a.input)]
               [] f \in {"sanitizeInput", "validateChatInput"} /\ Falsy(a.input) ->
                    IF f = "sanitizeInput"
                    THEN [a EXCEPT !.fn = f, !.pc = "done", !.result = <<>>]
                    ELSE [a EXCEPT !.fn = f, !.pc = "rules", !.sanitized = <<>>]
               [] f \in {"sanitizeInput", "validateChatInput"} /\ ~Falsy(a.input) ->
                    [a EXCEPT !.fn = f, !.pc = "schemes", !.sanitized = a.input.chars,
                              !.k = 1, !.passes = 0, !.entry = Len(a.input.chars)] ]
    /\ UNCHANGED <<DANGEROUS_SCHEMES, DANGEROUS_TAGS, fn, arg, ret>>

\* The activation after a pass of a loop that has left t: the loop goes on,
\* or the for loop goes to its next entry, or the call goes on to "after".
AfterPass(c, t, last, after) ==
    LET a == calls[c]
        b == [a EXCEPT !.previousLength = Len(Working(c)), !.sanitized = t]
    IN  IF LoopAgain(Len(t), Len(Working(c)))
        THEN [b EXCEPT !.passes = a.passes + 1]
        ELSE IF a.k < last
        THEN [b EXCEPT !.k = a.k + 1, !.passes = 0, !.entry = Len(t)]
        ELSE [b EXCEPT !.pc = after, !.k = 1, !.passes = 0, !.entry = Len(t)]

\* One pass of the loop of lines 56-60, for the scheme the for loop is at.
SchemePass(c) ==
    /\ calls[c].pc = "schemes"
    /\ calls' = [calls EXCEPT ![c] =
         One({ AfterPass(c, t, Len(DANGEROUS_SCHEMES), "tags")
               : t \in {schemePass(Working(c), DANGEROUS_SCHEMES[calls[c].k])} })]
    /\ UNCHANGED <<DANGEROUS_SCHEMES, DANGEROUS_TAGS, fn, arg, ret>>

\* One pass of the loop of lines 70-75, for the tag the for loop is at.
TagPass(c) ==
    /\ calls[c].pc = "tags"
    /\ calls' = [calls EXCEPT ![c] =
         One({ AfterPass(c, t, Len(DANGEROUS_TAGS), "elements")
               : t \in {tagPass(Working(c), DANGEROUS_TAGS[calls[c].k])} })]
    /\ UNCHANGED <<DANGEROUS_SCHEMES, DANGEROUS_TAGS, fn, arg, ret>>

\* One pass of the loop of lines 79-85.
ElementPass(c) ==
    /\ calls[c].pc = "elements"
    /\ calls' = [calls EXCEPT ![c] =
         One({ AfterPass(c, t, 1, "handlers") : t \in {elementPass(Working(c))} })]
    /\ UNCHANGED <<DANGEROUS_SCHEMES, DANGEROUS_TAGS, fn, arg, ret>>

\* Lines 88-91: the handlers are removed, the string is trimmed, and
\* sanitizeInput returns, to its caller or to validateChatInput (line 100).
Handlers(c) ==
    /\ calls[c].pc = "handlers"
    /\ calls' = [calls EXCEPT ![c] =
         One({ IF calls[c].fn = "sanitizeInput"
               THEN [calls[c] EXCEPT !.pc = "done", !.sanitized = t, !.result = t]
               ELSE [calls[c] EXCEPT !.pc = "rules", !.sanitized = t]
               : t \in { trim(d) : d \in { removeHandlers(w) : w \in {Working(c)} } } })]
    /\ UNCHANGED <<DANGEROUS_SCHEMES, DANGEROUS_TAGS, fn, arg, ret>>

\* Lines 103-126: validateChatInput decides on the sanitized string.
Rules(c) ==
    /\ calls[c].pc = "rules"
    /\ calls' = [calls EXCEPT ![c] =
         [calls[c] EXCEPT !.pc = "done", !.result = chatRules(Working(c))]]
    /\ UNCHANGED <<DANGEROUS_SCHEMES, DANGEROUS_TAGS, fn, arg, ret>>

\* The caller has taken the result and may call again.
Leave(c) ==
    /\ calls[c].pc = "done"
    /\ calls' = [calls EXCEPT ![c] = Idle(calls[c].inputs)]
    /\ UNCHANGED <<DANGEROUS_SCHEMES, DANGEROUS_TAGS, fn, arg, ret>>

\* A step of the call that caller c is in.
Run(c) ==
    \/ SchemePass(c)
    \/ TagPass(c)
    \/ ElementPass(c)
    \/ Handlers(c)
    \/ Rules(c)

NextSteps ==
    \/ \E c \in DOMAIN calls : \E f \in Functions :
           \E input \in calls[c].inputs : Enter(c, f, input)
    \/ \E c \in DOMAIN calls : SchemePass(c)
    \/ \E c \in DOMAIN calls : TagPass(c)
    \/ \E c \in DOMAIN calls : ElementPass(c)
    \/ \E c \in DOMAIN calls : Handlers(c)
    \/ \E c \in DOMAIN calls : Rules(c)
    \/ \E c \in DOMAIN calls : Leave(c)

\* The most constructs nested in one another in an argument.
MaxNest == 3

RECURSIVE Nest(_, _, _, _)
Nest(pre, mid, post, d) ==
    IF d = 0 THEN mid ELSE pre \o Nest(pre, mid, post, d - 1) \o post

\* dadata:ta:, dadadata:ta:ta:, ... and <scr<script>ipt>, ...
Nests ==
    { Nest(<<"d","a">>, <<"d","a","t","a",":">>, <<"t","a",":">>, d) : d \in 1..MaxNest }
        \cup { Nest(<<"<","s","c","r">>, <<"<","s","c","r","i","p","t",">">>,
                    <<"i","p","t",">">>, d) : d \in 1..MaxNest }

\* The most fragments of an argument of a call that is followed pass by pass.
MaxPassFrags == 2

PassFragments ==
    { <<"<","s","c","r">>,
      <<"i","p","t",">">>,
      <<"<","b","a","s","e",">">>,
      <<" ","o","n","x","=","1">> }

RECURSIVE PassConcats(_)
PassConcats(n) ==
    IF n = 0
    THEN {<<>>}
    ELSE {f \o r : f \in PassFragments, r \in PassConcats(n - 1)}

\* Constructs inside which another construct stands: dafile:ta:,
\* <scr<base>ipt> and an attribute inside an attribute.
Unmasking ==
    { <<"d","a","f","i","l","e",":","t","a",":">>,
      <<"<","s","c","r","<","b","a","s","e",">","i","p","t",">">>,
      <<" ","o","n","c"," ","o","n","x","=","1"," ","=","2">> }

PassArgs ==
    {Null, Undefined}
        \cup {Str(s) : s \in UNION {PassConcats(n) : n \in 0..MaxPassFrags}}
        \cup {Str(s) : s \in Nests \cup Unmasking}

\* One caller, with any of the arguments.
InitPasses ==
    /\ Loaded
    /\ arg = Null
    /\ calls = <<Idle(PassArgs)>>

SpecPasses == InitPasses /\ [][NextSteps]_vars

\* A call that has been entered goes on: the functions are synchronous.
FairSpecPasses == SpecPasses /\ WF_vars(Run(1))

\* The number of callers.
NCallers == 2

\* The arguments of the callers: one each, in turn.
CallerInputs ==
    << Str(<<" ","d","a","d","a","t","a",":","t","a",":"," ","o","n","x","=","1"," ","o","k">>),
       Str(<<"<","s","c","r","<","s","c","r","i","p","t",">","i","p","t",">","#","#">>),
       Str(<<"j","a","v","<","b","a","s","e",">","a","s","c","r","i","p","t",":","x">>) >>

CallerInput(c) == CallerInputs[((c - 1) % Len(CallerInputs)) + 1]

\* Several callers, each with its own argument.
InitCalls ==
    /\ Loaded
    /\ arg = Null
    /\ calls = [c \in 1..NCallers |-> Idle({CallerInput(c)})]

SpecCalls == InitCalls /\ [][NextSteps]_vars

----------------------------------------------------------------------------
(* What the properties speak of.  These recognisers are written from the   *)
(* wording of the properties and use none of the operators of              *)
(* sanitizeInput.                                                          *)

\* The string holds, from index i on, the characters of the scheme in any
\* casing, each after any amount of white space; k is the next character.
RECURSIVE SchemeOccursAt(_, _, _, _)
SchemeOccursAt(s, i, scheme, k) ==
    \/ k > Len(scheme)
    \/ /\ i <= Len(s)
       /\ \/ IsSpace(s[i]) /\ SchemeOccursAt(s, i + 1, scheme, k)
          \/ Lower(s[i]) = scheme[k] /\ SchemeOccursAt(s, i + 1, scheme, k + 1)

HasScheme(s) ==
    \E n \in DOMAIN SchemeList : \E i \in 1..Len(s) :
        /\ Lower(s[i]) = SchemeList[n][1]
        /\ SchemeOccursAt(s, i, SchemeList[n], 1)

\* The literal occurs in s at index i, letter case ignored.
OccursAt(s, i, lit) ==
    /\ i + Len(lit) - 1 <= Len(s)
    /\ \A k \in 1..Len(lit) : Lower(s[i + k - 1]) = lit[k]

Occurs(s, lit) == \E i \in 1..Len(s) : OccursAt(s, i, lit)

\* The indices j >= i reached from i over white space only.
SpaceReach(s, i) ==
    {j \in i..(Len(s) + 1) : \A x \in i..(j - 1) : IsSpace(s[x])}

\* An opening tag of the name starts at i: "<", optional white space, the
\* name ending there as a word, anything but ">", then ">".
OpenTagAt(s, i, name) ==
    /\ s[i] = "<"
    /\ \E j \in SpaceReach(s, i + 1) :
           /\ OccursAt(s, j, name)
           /\ j + Len(name) <= Len(s)
           /\ ~IsWord(s[j + Len(name)])
           /\ \E e \in (j + Len(name))..Len(s) : s[e] = ">"

\* A closing tag of the name starts at i: "<", "/", the name and ">",
\* with optional white space around the slash and before ">".
CloseTagAt(s, i, name) ==
    /\ s[i] = "<"
    /\ \E j \in SpaceReach(s, i + 1) :
           /\ j <= Len(s)
           /\ s[j] = "/"
           /\ \E m \in SpaceReach(s, j + 1) :
                  /\ OccursAt(s, m, name)
                  /\ \E e \in SpaceReach(s, m + Len(name)) :
                         e <= Len(s) /\ s[e] = ">"

HasDangerousTag(s) ==
    \E n \in DOMAIN TagList : \E i \in 1..Len(s) :
        OpenTagAt(s, i, TagList[n]) \/ CloseTagAt(s, i, TagList[n])

\* An attribute on<word>=value starts at i, the value quoted or bare: "on",
\* one or more word characters, "=", with optional white space around it,
\* and a first character of the value that is neither white space nor ">".
HandlerAt(s, i) ==
    /\ OccursAt(s, i, <<"o", "n">>)
    /\ \E w \in (i + 3)..Len(s) :
           /\ \A x \in (i + 2)..(w - 1) : IsWord(s[x])
           /\ \E q \in SpaceReach(s, w) :
                  /\ q <= Len(s)
                  /\ s[q] = "="
                  /\ \E v \in SpaceReach(s, q + 1) :
                         v <= Len(s) /\ ~IsSpace(s[v]) /\ s[v] # ">"

HasHandler(s) == \E i \in 1..Len(s) : HandlerAt(s, i)

ScriptName == <<"s","c","r","i","p","t">>

StyleName == <<"s","t","y","l","e">>

\* s is one element of the name and nothing else: "<name>", a body that
\* holds no "<", and "</name>".
IsElement(s, name) ==
    /\ Len(s) > 2 * Len(name) + 5
    /\ s[1] = "<"
    /\ OccursAt(s, 2, name)
    /\ s[Len(name) + 2] = ">"
    /\ \A x \in (Len(name) + 3)..(Len(s) - Len(name) - 3) : s[x] # "<"
    /\ s[Len(s) - Len(name) - 2] = "<"
    /\ s[Len(s) - Len(name) - 1] = "/"
    /\ OccursAt(s, Len(s) - Len(name), name)
    /\ s[Len(s)] = ">"

----------------------------------------------------------------------------
(* Properties of sanitizeInput *)

\* C1: sanitizeInput is idempotent: sanitizing its own result changes
\* nothing.
C1_Idempotent ==
    fn = "sanitizeInput" => sanitizeInput(Str(ret)) = ret

\* C2: the result of sanitizeInput holds no dangerous URL scheme, in any
\* casing and with any white space between the characters of the scheme.
C2_NoSchemeSurvives ==
    fn = "sanitizeInput" => ~HasScheme(ret)

\* C3: the result of sanitizeInput holds no opening and no closing tag of
\* any of the 14 dangerous tag names.
C3_NoTagSurvives ==
    fn = "sanitizeInput" => ~HasDangerousTag(ret)

\* C4: the result of sanitizeInput holds no attribute on<word>=value,
\* whatever precedes the attribute name.
C4_NoHandlerSurvives ==
    fn = "sanitizeInput" => ~HasHandler(ret)

\* C5: a script or style element is removed as one unit: when the argument
\* is one such element and nothing else, nothing of it is left, its body
\* included.
C5_ElementRemovedWhole ==
    (/\ fn = "sanitizeInput"
     /\ arg.type = "string"
     /\ IsElement(arg.chars, ScriptName) \/ IsElement(arg.chars, StyleName))
        => ret = <<>>

\* C6: for every dangerous tag name T in every casing, the result of
\* sanitizeInput("<" + T + ">evil</" + T + ">") holds neither "<T" nor
\* "</T", letter case ignored.
C6_TagTestClean ==
    fn = "sanitizeInput" =>
        \A n \in DOMAIN TagList :
            arg.chars \in {TagTest(T) : T \in Casings(TagList[n])} =>
                /\ ~Occurs(ret, <<"<">> \o TagList[n])
                /\ ~Occurs(ret, <<"<", "/">> \o TagList[n])

\* C6 witness: the test of TextArea was sanitized, and only "evil" is left.
C6_Witness ==
    /\ fn = "sanitizeInput"
    /\ arg.chars = TagTest(<<"T","e","x","t","A","r","e","a">>)
    /\ ret = Evil

\* C7: for every dangerous scheme in any casing and with white space
\* between its characters or before its colon, the result of
\* sanitizeInput(scheme + "alert(1)") holds no dangerous scheme.
C7_SchemeTestClean ==
    (fn = "sanitizeInput" /\ arg \in SchemeArgs) => ~HasScheme(ret)

\* C7 witness: "java\nscript:alert(1)" was sanitized to "alert(1)".
C7_Witness ==
    /\ fn = "sanitizeInput"
    /\ arg.chars = <<"j","a","v","a","\n","s","c","r","i","p","t",":","a","l","e","r","t","(","1",")">>
    /\ ret = Alert

\* C8: sanitizeInput gives the empty string for an empty, null or
\* undefined argument, and its result never starts or ends with white
\* space.
C8_EmptyAndTrimmed ==
    fn = "sanitizeInput" =>
        /\ (arg.type # "string" \/ arg.chars = <<>>) => ret = <<>>
        /\ ret # <<>> => ~IsSpace(ret[1]) /\ ~IsSpace(ret[Len(ret)])

\* C8 witness: an argument that ends with white space was sanitized to a
\* non-empty string.
C8_Witness ==
    /\ fn = "sanitizeInput"
    /\ arg.type = "string"
    /\ Len(arg.chars) > 1
    /\ IsSpace(arg.chars[1])
    /\ IsSpace(arg.chars[Len(arg.chars)])
    /\ ret # <<>>

----------------------------------------------------------------------------
(* Properties of validateChatInput *)

\* C9: validateChatInput applies its rules to the sanitized string in the
\* order empty, too long, special-character ratio, repeated run; the
\* result is the rejection of the first rule that fails, and valid
\* exactly when none fails.
C9_RulesInOrder ==
    fn = "validateChatInput" =>
        \A s \in {sanitizeInput(arg)} :
            LET empty    == \A i \in 1..Len(s) : IsSpace(s[i])
                tooLong  == Len(s) > MaxChatLength
                special  == 2 * specialCharCount(s) > Len(s)
                repeated == repeatedChars(s)
            IN  /\ ret.valid <=> ~(empty \/ tooLong \/ special \/ repeated)
                /\ empty => ret = Invalid("Message cannot be empty")
                /\ (~empty /\ tooLong) =>
                       ret = Invalid("Message too long (maximum 4000 characters)")
                /\ (~empty /\ ~tooLong /\ special) =>
                       ret = Invalid("Message contains too many special characters")
                /\ (~empty /\ ~tooLong /\ ~special /\ repeated) =>
                       ret = Invalid("Message contains excessive repeated characters")

\* C9 witness: 4001 special characters, which fail the length rule, the
\* ratio rule and the run rule, were rejected as too long.
C9_Witness ==
    /\ fn = "validateChatInput"
    /\ arg = Str(Repeat("#", MaxChatLength + 1))
    /\ ret = Invalid("Message too long (maximum 4000 characters)")

\* C10: a message that passes the first three rules is rejected for
\* excessive repeated characters when some character, whichever it is,
\* line breaks included, occurs 11 or more times in a row, and is not
\* rejected for that reason otherwise.
C10_AnyRunRejected ==
    fn = "validateChatInput" =>
        \A s \in {sanitizeInput(arg)} :
            (/\ \E i \in 1..Len(s) : ~IsSpace(s[i])
             /\ Len(s) <= MaxChatLength
             /\ 2 * specialCharCount(s) <= Len(s))
                => ( (\E i \in 1..(Len(s) - 10) : \A k \in 1..10 : s[i + k] = s[i])
                       <=> ret = Invalid("Message contains excessive repeated characters") )

\* The punctuation the ratio rule lets pass.
AllowedPunctuation == {".", ",", "!", "?", ";", ":", "(", ")", "-", "'", "\""}

\* The number of characters of s that are no ASCII letter, no digit, no
\* white space and none of the punctuation above.
SpecialCount(s) ==
    Cardinality({i \in 1..Len(s) :
        s[i] \notin Letters \cup Digits \cup WhiteSpace \cup AllowedPunctuation})

\* C11: validateChatInput rejects a message for too many special
\* characters exactly when its sanitized string is not empty, has at most
\* 4000 characters, and strictly more than half of its characters are
\* special; a message of which exactly half is special is not rejected
\* for that reason.
C11_MoreThanHalfSpecial ==
    fn = "validateChatInput" =>
        \A s \in {sanitizeInput(arg)} :
            (ret = Invalid("Message contains too many special characters"))
                <=> (Len(s) >= 1 /\ Len(s) <= 4000 /\ 2 * SpecialCount(s) > Len(s))

\* C11 witness: "a#", of which exactly half is special, was accepted.
C11_Witness ==
    /\ fn = "validateChatInput"
    /\ arg = Str(<<"a", "#">>)
    /\ ret = Valid

\* C12: validateChatInput rejects a message as too long exactly when its
\* sanitized string has more than 4000 characters: 4001 times "a" is
\* rejected with that message, and no message whose sanitized string has
\* 4000 characters or fewer is.
C12_TooLongAbove4000 ==
    fn = "validateChatInput" =>
        /\ \A s \in {sanitizeInput(arg)} :
               (ret = Invalid("Message too long (maximum 4000 characters)"))
                   <=> (Len(s) > 4000)
        /\ arg = Str(Repeat("a", 4001)) =>
               ret = Invalid("Message too long (maximum 4000 characters)")

\* C12 witness: 4000 times "a" was validated and not rejected as too long.
C12_Witness ==
    /\ fn = "validateChatInput"
    /\ arg = Str(Repeat("a", 4000))
    /\ ret # Invalid("Message too long (maximum 4000 characters)")

\* Messages made only of white space or only of constructs that
\* sanitizeInput removes.
OnlyRemoved ==
    { <<>>,
      <<" ">>,
      <<" ", " ", " ">>,
      <<"f","i","l","e",":">>,
      <<"<","s","c","r","i","p","t",">","<","/","s","c","r","i","p","t",">">> }

\* C13: validateChatInput rejects with "Message cannot be empty" every
\* message whose sanitized string is empty: the empty string, a message of
\* white space only, and a message made only of removed constructs such as
\* "file:" or "<script></script>".
C13_EmptyRejected ==
    fn = "validateChatInput" =>
        /\ sanitizeInput(arg) = <<>> => ret = Invalid("Message cannot be empty")
        /\ (arg.type = "string" /\ \A i \in 1..Len(arg.chars) : arg.chars[i] \in WhiteSpace)
               => ret = Invalid("Message cannot be empty")
        /\ (arg.type = "string" /\ arg.chars \in OnlyRemoved)
               => ret = Invalid("Message cannot be empty")

\* C13 witness: "<script></script>" was rejected as empty.
C13_Witness ==
    /\ fn = "validateChatInput"
    /\ arg = Str(<<"<","s","c","r","i","p","t",">","<","/","s","c","r","i","p","t",">">>)
    /\ ret = Invalid("Message cannot be empty")

\* The argument is no string, or a string of white space only (the empty
\* string included).
Blank(a) ==
    a.type # "string" \/ \A i \in 1..Len(a.chars) : a.chars[i] \in WhiteSpace

\* C14: validateUsername accepts a name exactly when it has 3 to 50
\* characters, both included, all of them in [A-Za-z0-9._-]; otherwise it
\* reports the first rule that fails, in the order: required (empty or
\* white space only), shorter than 3, longer than 50, forbidden character.
C14_UsernameRules ==
    fn = "validateUsername" =>
        LET n == Len(arg.chars)
            named == \A i \in 1..n :
                        arg.chars[i] \in Letters \cup Digits \cup {".", "_", "-"}
        IN  /\ ret = Valid <=> (arg.type = "string" /\ n >= 3 /\ n <= 50 /\ named)
            /\ Blank(arg) => ret = Invalid("Username is required")
            /\ (~Blank(arg) /\ n < 3) =>
                   ret = Invalid("Username must be at least 3 characters")
            /\ (~Blank(arg) /\ n > 50) =>
                   ret = Invalid("Username must be less than 50 characters")
            /\ (~Blank(arg) /\ n >= 3 /\ n <= 50 /\ ~named) =>
                   ret = Invalid("Username can only contain letters, numbers, dots, underscores, and hyphens")

\* C14 witness: a name of 50 letters was accepted.
C14_Witness ==
    /\ fn = "validateUsername"
    /\ arg = Str(Repeat("a", 50))
    /\ ret = Valid

\* C15: validatePassword accepts a password exactly when it has 8 to 128
\* characters, both included, whatever the characters; the empty string is
\* "Password is required", 1 to 7 characters "at least 8", more than 128
\* "less than 128".
C15_PasswordRules ==
    fn = "validatePassword" =>
        LET n == Len(arg.chars)
        IN  /\ ret = Valid <=> (arg.type = "string" /\ n >= 8 /\ n <= 128)
            /\ (arg.type # "string" \/ n = 0) => ret = Invalid("Password is required")
            /\ (arg.type = "string" /\ n >= 1 /\ n <= 7) =>
                   ret = Invalid("Password must be at least 8 characters")
            /\ (arg.type = "string" /\ n > 128) =>
                   ret = Invalid("Password must be less than 128 characters")

\* C15 witness: a password of 8 spaces was accepted.
C15_Witness ==
    /\ fn = "validatePassword"
    /\ arg = Str(Repeat(" ", 8))
    /\ ret = Valid

\* s is local@domain: no white space, exactly one "@" with at least one
\* character before it, and after it a domain that has a "." with at
\* least one character on each side.
AddressShape(s) ==
    /\ \A i \in 1..Len(s) : s[i] \notin WhiteSpace
    /\ Cardinality({i \in 1..Len(s) : s[i] = "@"}) = 1
    /\ \E a \in 2..Len(s) :
           /\ s[a] = "@"
           /\ \E d \in (a + 2)..(Len(s) - 1) : s[d] = "."

\* C16: validateEmail applies, in this order, the rules required, shape
\* and length: an empty or white-space-only address is "Email is
\* required"; an address that has not the shape local@domain.tld is
\* "Invalid email format", also when it has more than 254 characters; an
\* address of the shape with more than 254 characters is "Email is too
\* long"; an address of the shape with at most 254 characters is accepted.
C16_EmailRules ==
    fn = "validateEmail" =>
        LET n == Len(arg.chars)
        IN  /\ Blank(arg) => ret = Invalid("Email is required")
            /\ (~Blank(arg) /\ ~AddressShape(arg.chars)) =>
                   ret = Invalid("Invalid email format")
            /\ (~Blank(arg) /\ AddressShape(arg.chars) /\ n > 254) =>
                   ret = Invalid("Email is too long")
            /\ (~Blank(arg) /\ AddressShape(arg.chars) /\ n <= 254) => ret = Valid

\* C16 witness: an address of the shape with 254 characters was accepted.
C16_Witness ==
    /\ fn = "validateEmail"
    /\ Len(arg.chars) = 254
    /\ AddressShape(arg.chars)
    /\ ret = Valid

\* The messages of each validator.
Messages ==
    [ validateChatInput |->
        { "Message cannot be empty",
          "Message too long (maximum 4000 characters)",
          "Message contains too many special characters",
          "Message contains excessive repeated characters" },
      validateUsername |->
        { "Username is required",
          "Username must be at least 3 characters",
          "Username must be less than 50 characters",
          "Username can only contain letters, numbers, dots, underscores, and hyphens" },
      validatePassword |->
        { "Password is required",
          "Password must be at least 8 characters",
          "Password must be less than 128 characters" },
      validateEmail |->
        { "Email is required",
          "Invalid email format",
          "Email is too long" } ]

\* C17: every result of the four validators is well formed: when valid is
\* true there is no error; when valid is false there is an error, and it
\* is one of the fixed messages of that validator.
C17_ResultWellFormed ==
    fn \in DOMAIN Messages =>
        /\ ret.valid \in BOOLEAN
        /\ ret.valid => DOMAIN ret = {"valid"}
        /\ ~ret.valid => (DOMAIN ret = {"valid", "error"} /\ ret.error \in Messages[fn])

\* C17 witness: a validator has rejected its argument with one of its
\* messages.
C17_Witness ==
    /\ fn = "validatePassword"
    /\ ret = [valid |-> FALSE, error |-> "Password must be less than 128 characters"]

\* Caller c makes a pass of one of the three loops.
PassOf(c) ==
    /\ calls[c].pc \in {"schemes", "tags", "elements"}
    /\ calls'[c] # calls[c]

\* The pass of caller c was the last pass of its loop.
LastPassOf(c) == calls'[c].pc # calls[c].pc \/ calls'[c].k # calls[c].k

\* C19: sanitizeInput terminates on every argument: in each of its loops a
\* pass either strictly shortens the string or is the last pass of the
\* loop, so that a loop makes at most as many passes as the string had
\* characters on entry to the loop, plus one; and a call that was entered
\* returns.
C19_Terminates ==
    /\ [][\A c \in DOMAIN calls :
            PassOf(c) =>
                /\ Len(calls'[c].sanitized) < Len(calls[c].sanitized) \/ LastPassOf(c)
                /\ calls[c].passes + 1 <= calls[c].entry + 1]_vars
    /\ (calls[1].pc \notin {"idle", "done"}) ~> (calls[1].pc = "done")

\* C19 witness: a loop is at its third pass, and the string is shorter
\* than on entry.
C19_Witness ==
    /\ calls[1].pc = "schemes"
    /\ calls[1].passes = 2
    /\ Len(calls[1].sanitized) < calls[1].entry

\* What function f gives for argument x when nothing else runs.
Alone(f, x) ==
    CASE f = "sanitizeInput" -> sanitizeInput(x)
      [] f = "validateChatInput" -> validateChatInput(x)
      [] f = "validateUsername" -> validateUsername(x)
      [] f = "validatePassword" -> validatePassword(x)
      [] f = "validateEmail" -> validateEmail(x)

\* C18: the five functions are pure and stateless: in every interleaving
\* of the calls of any number of callers, the result of a call is what
\* the function gives for that call's own argument, and a step of one call
\* changes neither the two lists nor anything of another call.
C18_PureAndStateless ==
    /\ [](\A c \in DOMAIN calls :
            calls[c].pc = "done" =>
                calls[c].result = Alone(calls[c].fn, calls[c].input))
    /\ [][/\ DANGEROUS_SCHEMES' = DANGEROUS_SCHEMES
           /\ DANGEROUS_TAGS' = DANGEROUS_TAGS
           /\ \A c, d \in DOMAIN calls :
                  (calls'[c] # calls[c] /\ d # c) => calls'[d] = calls[d]]_vars

\* C18 witness: a call of validateChatInput has returned while the call
\* of another caller was in the middle of a scheme loop.
C18_Witness ==
    /\ calls[1].pc = "schemes"
    /\ calls[1].passes = 1
    /\ calls[2].pc = "done"
    /\ calls[2].fn = "validateChatInput"
    /\ calls[2].result = Invalid("Message contains too many special characters")

\* C20: the raw argument is capped: of an argument longer than the cap,
\* sanitizeInput and validateChatInput process only the capped amount, or
\* validateChatInput fails with a verdict of its own, none of the four
\* messages of its rules.  The cap is taken to be the one length the
\* layer names, 4000.
C20_RawInputCapped ==
    (arg.type = "string" /\ Len(arg.chars) > MaxChatLength) =>
        \A capped \in {Str(SubSeq(arg.chars, 1, MaxChatLength))} :
            /\ fn = "sanitizeInput" => ret = sanitizeInput(capped)
            /\ fn = "validateChatInput" =>
                   \/ ret = validateChatInput(capped)
                   \/ (~ret.valid /\ ret.error \notin Messages.validateChatInput)

\* C21: sanitizeInput is total: for every string, malformed markup
\* included (a "<" that is not closed, a quote of an attribute that is not
\* terminated, a closing tag without an opening tag), it returns a string
\* and never ends in an error.  A string is a sequence of characters; the
\* characters of the result are characters of the argument.
C21_Total ==
    fn = "sanitizeInput" =>
        /\ DOMAIN ret = 1..Len(ret)
        /\ \A i \in 1..Len(ret) : \E j \in 1..Len(arg.chars) : ret[i] = arg.chars[j]

\* C21 witness: an argument with an unclosed "<" and an unterminated quote
\* was sanitized, and something of it is left.
C21_Witness ==
    /\ fn = "sanitizeInput"
    /\ arg = Str(<<"<","a"," ","h","r","e","f","=","'">> \o <<"<">>)
    /\ Len(ret) > 0

\* The expression of every scheme, from the k-th on, applied once to s.
RECURSIVE SchemesOnce(_, _)
SchemesOnce(s, k) ==
    IF k > Len(SchemeList)
    THEN s
    ELSE One({ SchemesOnce(t, k + 1) : t \in {schemePass(s, SchemeList[k])} })

\* The two expressions of every tag, from the k-th on, applied once to s.
RECURSIVE TagsOnce(_, _)
TagsOnce(s, k) ==
    IF k > Len(TagList)
    THEN s
    ELSE One({ TagsOnce(t, k + 1) : t \in {tagPass(s, TagList[k])} })

\* C22: each of the four categories of sanitizeInput (schemes, tags,
\* script and style elements, event handlers) is applied until the length
\* of the string stops changing: when a call leaves a category, the
\* patterns of that category, applied once more, remove nothing.
C22_CategoryAtFixedPoint ==
    [][\A c \in DOMAIN calls :
         /\ (calls[c].pc = "schemes" /\ calls'[c].pc = "tags") =>
                \A t \in {calls'[c].sanitized} : SchemesOnce(t, 1) = t
         /\ (calls[c].pc = "tags" /\ calls'[c].pc = "elements") =>
                \A t \in {calls'[c].sanitized} : TagsOnce(t, 1) = t
         /\ (calls[c].pc = "elements" /\ calls'[c].pc = "handlers") =>
                \A t \in {calls'[c].sanitized} : elementPass(t) = t
         /\ (calls[c].pc = "handlers" /\ calls'[c].pc # "handlers") =>
                \A t \in {removeHandlers(calls[c].sanitized)} : removeHandlers(t) = t]_vars

\* C23: the list of dangerous schemes (4 entries) and the list of
\* dangerous tags (14 entries) are never modified: after any sequence of
\* calls of the five functions both hold the entries they held at module
\* load, in the same order.
C23_ListsUnchanged ==
    /\ Len(DANGEROUS_SCHEMES) = 4
    /\ Len(DANGEROUS_TAGS) = 14
    /\ DANGEROUS_SCHEMES = SchemeList
    /\ DANGEROUS_TAGS = TagList

\* C23 witness: a call of sanitizeInput that used both lists (it removed
\* "file:" and "<base>") has returned.
C23_Witness ==
    /\ fn = "sanitizeInput"
    /\ arg = Str(<<"f","i","l","e",":">> \o <<"<","b","a","s","e",">">> \o <<"e","v","i","l">>)
    /\ ret = <<"e","v","i","l">>

\* C24: when validateChatInput accepts a message, the sanitized string,
\* which the caller goes on to use, is accepted as well:
\* validateChatInput(sanitizeInput(x)) gives the same verdict.
C24_SanitizedAcceptedToo ==
    (fn = "validateChatInput" /\ ret.valid) =>
        \A s \in {sanitizeInput(arg)} : validateChatInput(Str(s)) = ret

\* The characters of a from its i-th on are, in their order, among the
\* characters of b from its j-th on.
RECURSIVE SubsequenceFrom(_, _, _, _)
SubsequenceFrom(a, i, b, j) ==
    IF i > Len(a)
    THEN TRUE
    ELSE IF j > Len(b)
    THEN FALSE
    ELSE IF a[i] = b[j]
    THEN SubsequenceFrom(a, i + 1, b, j + 1)
    ELSE SubsequenceFrom(a, i, b, j + 1)

\* C25: sanitizeInput only deletes characters: its result is a subsequence
\* of its argument (the characters kept are in their original order, none
\* is added and none is changed), and so is not longer than the argument.
C25_OnlyDeletes ==
    fn = "sanitizeInput" =>
        /\ SubsequenceFrom(ret, 1, arg.chars, 1)
        /\ Len(ret) <= Len(arg.chars)

\* C25 witness: a tag was deleted from between two words, which are left
\* side by side.
C25_Witness ==
    /\ fn = "sanitizeInput"
    /\ arg = Str(<<"e","v","i","l">> \o <<"<","b","a","s","e",">">> \o <<"e","v","i","l">>)
    /\ ret = <<"e","v","i","l","e","v","i","l">>

\* s without the white space at its two ends.
Trimmed(s) ==
    LET inked == {i \in 1..Len(s) : s[i] \notin WhiteSpace}
    IN  IF inked = {}
        THEN <<>>
        ELSE SubSeq(s, CHOOSE i \in inked : \A j \in inked : i <= j,
                       CHOOSE i \in inked : \A j \in inked : i >= j)

\* C26: sanitizeInput leaves harmless text alone: for an argument that
\* holds none of the characters "<", ":" and "=", the result is the
\* argument with only the white space at its two ends removed.
C26_HarmlessKept ==
    (/\ fn = "sanitizeInput"
     /\ arg.type = "string"
     /\ \A i \in 1..Len(arg.chars) : arg.chars[i] \notin {"<", ":", "="})
        => ret = Trimmed(arg.chars)

\* C26 witness: "x onclick" followed by a line break came back without
\* the line break and otherwise whole.
C26_Witness ==
    /\ fn = "sanitizeInput"
    /\ arg = Str(<<"x", " ","o","n","c","l","i","c","k", "\n">>)
    /\ ret = <<"x", " ","o","n","c","l","i","c","k">>

\* C27: the limit of 4000 characters is measured after sanitization only:
\* an argument of more than 4000 characters whose sanitized string has
\* between 1 and 4000 characters is never rejected as too long.
C27_LimitAfterSanitization ==
    (fn = "validateChatInput" /\ Len(arg.chars) > 4000) =>
        \A s \in {sanitizeInput(arg)} :
            (Len(s) >= 1 /\ Len(s) <= 4000) =>
                ret # Invalid("Message too long (maximum 4000 characters)")

\* C27 witness: an argument of 4009 characters, a tag of 4007 characters
\* before "ok", was accepted.
C27_Witness ==
    /\ fn = "validateChatInput"
    /\ Len(arg.chars) = 4009
    /\ ret = Valid

\* C28: validateEmail accepts only strings with exactly one "@", a local
\* part that is not empty, and a domain in which some "." has at least one
\* character before it and at least one after it; "a@b@c.com",
\* "user@.com", "user@example." and "@example.com" are rejected with
\* "Invalid email format".
C28_EmailShape ==
    fn = "validateEmail" =>
        /\ ret.valid =>
               LET s == arg.chars
                   ats == {i \in 1..Len(s) : s[i] = "@"}
               IN  /\ Cardinality(ats) = 1
                   /\ \A a \in ats :
                          /\ a > 1
                          /\ \E d \in (a + 1)..Len(s) :
                                 s[d] = "." /\ d - 1 > a /\ d + 1 <= Len(s)
        /\ arg \in { Str(<<"a","@","b","@","c",".","c","o","m">>),
                      Str(<<"u","s","e","r","@",".","c","o","m">>),
                      Str(<<"u","s","e","r","@","e","x","a","m","p","l","e",".">>),
                      Str(<<"@","e","x","a","m","p","l","e",".","c","o","m">>) }
               => ret = Invalid("Invalid email format")

\* C28 witness: "a@b@c.com", with two "@", was rejected for its format.
C28_Witness ==
    /\ fn = "validateEmail"
    /\ arg = Str(<<"a","@","b","@","c",".","c","o","m">>)
    /\ ret = Invalid("Invalid email format")

\* C29: the required rule treats white space differently per field: a
\* string of white space only, of any length, is rejected as required by
\* validateUsername and by validateEmail, while validatePassword accepts a
\* string of white space only that has 8 to 128 characters.
C29_WhiteSpacePerField ==
    (arg.type = "string" /\ \A i \in 1..Len(arg.chars) : arg.chars[i] \in WhiteSpace) =>
        /\ fn = "validateUsername" => ret = Invalid("Username is required")
        /\ fn = "validateEmail" => ret = Invalid("Email is required")
        /\ (fn = "validatePassword" /\ Len(arg.chars) >= 8 /\ Len(arg.chars) <= 128)
               => ret = Valid

\* C29 witness: a password of 128 spaces was accepted.
C29_Witness ==
    /\ fn = "validatePassword"
    /\ arg = Str(Repeat(" ", 128))
    /\ ret = Valid

====
